---------------------------- MODULE Spec2Model ----------------------------
(***************************************************************************)
(* Model of the interpolable look-up table (src/Cpp/InterpolableLUT.cpp,   *)
(* and its near-duplicate InterpolateLUT in src/unnamed/part_000).         *)
(*                                                                         *)
(* The C++ type double is modelled by exact fractions n/d (d > 0), so the  *)
(* arithmetic of linear_interpolate is the arithmetic of the formula       *)
(* without rounding or overflow; a fraction with d = 0 stands for the      *)
(* result of a division by zero (n > 0: +inf, n < 0: -inf, n = 0: NaN).    *)
(* Vectors are sequences; the code's 0-based index i is element i + 1.     *)
(***************************************************************************)
EXTENDS Integers, Sequences, FiniteSets, TLC

(***************************************************************************)
(* Bounds of the model.                                                    *)
(***************************************************************************)
\* the values of the monotonic tables and of their reference lists: 0..MaxVal
MaxVal == 2
\* the monotonic tables have 2..MaxCols columns
MaxCols == 3
\* the unconstrained tables have 2..GenCols columns
GenCols == 3
\* the lists handed to find_nearest_indexes alone have 2..MaxLen elements
MaxLen == 4

(***************************************************************************)
(* double, as exact fractions.                                             *)
(***************************************************************************)
Abs(k) == IF k < 0 THEN -k ELSE k

Sign(k) == IF k < 0 THEN -1 ELSE IF k > 0 THEN 1 ELSE 0

RECURSIVE Gcd(_, _)
Gcd(a, b) == IF b = 0 THEN a ELSE Gcd(b, a % b)

\* the only element of a set of one element; {F(v) : v \in {e}} hands F the
\* value of e, evaluated once
The(S) == CHOOSE e \in S : TRUE

\* the fraction n/d in lowest terms with a non-negative denominator
Norm(n, d) ==
    IF d = 0 THEN [n |-> Sign(n), d |-> 0]
    ELSE The({[n |-> (Sign(d) * n) \div g, d |-> Abs(d) \div g] :
              g \in {Gcd(Abs(n), Abs(d))}})

Rat(k) == [n |-> k, d |-> 1]

IsNaN(a) == a.n = 0 /\ a.d = 0

\* the operators +, -, * and / of double
RAdd(a, b) == Norm(a.n * b.d + b.n * a.d, a.d * b.d)

RSub(a, b) == Norm(a.n * b.d - b.n * a.d, a.d * b.d)

RMul(a, b) == Norm(a.n * b.n, a.d * b.d)

RDiv(a, b) == Norm(a.n * b.d * Sign(b.n), a.d * Abs(b.n))

\* a <= b and a < b on doubles: every comparison with NaN is false
RLe(a, b) ==
    /\ ~IsNaN(a)
    /\ ~IsNaN(b)
    /\ IF a.d = 0 /\ b.d = 0 THEN a.n <= b.n ELSE a.n * b.d <= b.n * a.d

RLt(a, b) ==
    /\ ~IsNaN(a)
    /\ ~IsNaN(b)
    /\ IF a.d = 0 /\ b.d = 0 THEN a.n < b.n ELSE a.n * b.d < b.n * a.d

RGt(a, b) == RLt(b, a)

(***************************************************************************)
(* The private helpers of the class.                                       *)
(***************************************************************************)
\* the for loop of find_nearest_indexes from index i on; lower and upper
\* are the values behind the two output pointers
RECURSIVE scan(_, _, _, _, _, _)
scan(list, list_len, search_val, lower, upper, i) ==
    IF ~(i < list_len - 1)
    THEN [ret |-> FALSE, lower |-> lower, upper |-> upper]
    ELSE IF RLe(list[i + 1], search_val) /\ RGt(list[i + 2], search_val)
         THEN [ret |-> TRUE, lower |-> i, upper |-> i + 1]
         ELSE scan(list, list_len, search_val, lower, upper, i + 1)

\* a variant of the loop whose upper comparison is >= instead of >
RECURSIVE scan_inclusive(_, _, _, _, _, _)
scan_inclusive(list, list_len, search_val, lower, upper, i) ==
    IF ~(i < list_len - 1)
    THEN [ret |-> FALSE, lower |-> lower, upper |-> upper]
    ELSE IF RLe(list[i + 1], search_val) /\ RLe(search_val, list[i + 2])
         THEN [ret |-> TRUE, lower |-> i, upper |-> i + 1]
         ELSE scan_inclusive(list, list_len, search_val, lower, upper, i + 1)

find_nearest_indexes_inclusive(list, list_len, search_val, lower, upper) ==
    scan_inclusive(list, list_len, search_val, lower, upper, 0)

\* a variant of the loop without its break: the last bracket wins
RECURSIVE scan_no_break(_, _, _, _, _, _)
scan_no_break(list, list_len, search_val, lower, upper, i) ==
    IF ~(i < list_len - 1)
    THEN [ret |-> FALSE, lower |-> lower, upper |-> upper]
    ELSE The({IF later.ret
              THEN later
              ELSE IF RLe(list[i + 1], search_val)
                      /\ RGt(list[i + 2], search_val)
                   THEN [ret |-> TRUE, lower |-> i, upper |-> i + 1]
                   ELSE later :
              later \in {scan_no_break(list, list_len, search_val,
                                       lower, upper, i + 1)}})

find_nearest_indexes_no_break(list, list_len, search_val, lower, upper) ==
    scan_no_break(list, list_len, search_val, lower, upper, 0)

\* a variant of the loop that stops one pair early: i < list_len - 2
find_nearest_indexes_short(list, list_len, search_val, lower, upper) ==
    scan(list, list_len - 1, search_val, lower, upper, 0)

\* bool find_nearest_indexes(list, list_len, search_val, lower_result,
\* upper_result): the value returned and the values behind the two pointers
find_nearest_indexes(list, list_len, search_val, lower, upper) ==
    scan(list, list_len, search_val, lower, upper, 0)

\* a variant that measures x from x1 instead of x0
linear_interpolate_from_x1(x0, y0, x1, y1, x) ==
    RAdd(y0, RDiv(RMul(RSub(y1, y0), RSub(x, x1)), RSub(x1, x0)))

\* a variant that divides by x0 - x1 instead of x1 - x0
linear_interpolate_reversed(x0, y0, x1, y1, x) ==
    RAdd(y0, RDiv(RMul(RSub(y1, y0), RSub(x, x0)), RSub(x0, x1)))

\* y0 + (y1 - y0) * (x - x0) / (x1 - x0)
linear_interpolate(x0, y0, x1, y1, x) ==
    RAdd(y0, RDiv(RMul(RSub(y1, y0), RSub(x, x0)), RSub(x1, x0)))

(***************************************************************************)
(* State.                                                                  *)
(***************************************************************************)
VARIABLES
    args,       \* the arguments the constructor was called with
    table, x_ref, y_ref, x_len, y_len,     \* the members of the object
    pc,         \* the position of the caller
    x_input, y_input,                      \* the arguments of find
    x_lower_idx, x_upper_idx, y_lower_idx, y_upper_idx, result,
    interpolated_y_values_at_x,            \* the locals of find
    searches,   \* the calls of find_nearest_indexes, each with what it returned
    interpolations,     \* the calls of linear_interpolate, each with its value
    row,        \* the argument of operator[]
    retval      \* what getYRef or operator[] returned

vars == <<args, table, x_ref, y_ref, x_len, y_len, pc, x_input, y_input,
          x_lower_idx, x_upper_idx, y_lower_idx, y_upper_idx, result,
          interpolated_y_values_at_x, searches, interpolations, row, retval>>

object == <<args, table, x_ref, y_ref, x_len, y_len>>

locals == <<x_input, y_input, x_lower_idx, x_upper_idx, y_lower_idx,
            y_upper_idx, result, interpolated_y_values_at_x>>

None == "none"

(***************************************************************************)
(* Inputs.                                                                 *)
(***************************************************************************)
\* every function of 1..len into 0..max, as a vector of doubles
Vectors(len, max) == {[i \in 1..len |-> Rat(s[i])] : s \in [1..len -> 0..max]}

Increasing(v) == \A i \in 1..(Len(v) - 1) : RLt(v[i], v[i + 1])

Ascending(v) == \A i \in 1..(Len(v) - 1) : RLe(v[i], v[i + 1])

IncreasingVectors(len, max) == {v \in Vectors(len, max) : Increasing(v)}

\* the halves from -1/2 to max + 1/2
Halves(max) == {Norm(k, 2) : k \in (-1)..(2 * max + 1)}

\* every table has two or three rows
Rows == {2, 3}

\* tables whose rows and reference lists are strictly increasing
MonotonicArgs ==
    {[table |-> t, x_ref |-> xr, y_ref |-> yr, x_len |-> xl, y_len |-> yl] :
        <<xl, yl, t, xr, yr>> \in
            UNION {UNION {
                {xl} \X {yl} \X [1..yl -> IncreasingVectors(xl, MaxVal)]
                     \X IncreasingVectors(xl, MaxVal)
                     \X IncreasingVectors(yl, MaxVal) :
                xl \in 2..MaxCols} : yl \in Rows}}

\* tables and y-reference lists of the values 0 and 1 in any order; the
\* x-reference list, which no comparison reads, is 0, 1, ..., x_len - 1
GeneralArgs ==
    {[table |-> t, x_ref |-> [i \in 1..xl |-> Rat(i - 1)], y_ref |-> yr,
      x_len |-> xl, y_len |-> yl] :
        <<xl, yl, t, yr>> \in
            UNION {UNION {
                {xl} \X {yl} \X [1..yl -> Vectors(xl, 1)] \X Vectors(yl, 1) :
                xl \in 2..GenCols} : yl \in Rows}}

\* the largest element of a vector of whole numbers
Top(v) == CHOOSE m \in {v[i].n : i \in 1..Len(v)} :
              \A i \in 1..Len(v) : v[i].n <= m

\* the queries: within half a unit of the values of the y-reference list
\* and of the table
YInputs == Halves(Top(y_ref))

XInputs == Halves(Top([i \in 1..y_len |-> Rat(Top(table[i]))]))

\* one call of find_nearest_indexes(list, list_len, search_val, &lower, &upper):
\* its arguments, the values behind the pointers before and after, and the
\* value returned
Frame(list, list_len, search_val, lower, upper) ==
    The({[list |-> list, list_len |-> list_len, search_val |-> search_val,
          lower_in |-> lower, upper_in |-> upper,
          lower_result |-> r.lower, upper_result |-> r.upper, ret |-> r.ret] :
         r \in {find_nearest_indexes(list, list_len, search_val, lower, upper)}})

\* one call of linear_interpolate, with the value returned
Interpolation(x0, y0, x1, y1, x) ==
    [x0 |-> x0, y0 |-> y0, x1 |-> x1, y1 |-> y1, x |-> x,
     value |-> linear_interpolate(x0, y0, x1, y1, x)]

\* find_nearest_indexes called on its own, on a list in any order
SearchArgs ==
    {[list |-> l, list_len |-> Len(l), search_val |-> v,
      lower_in |-> lo, upper_in |-> up,
      lower_result |-> lo, upper_result |-> up, ret |-> FALSE] :
        <<l, v, lo, up>> \in
            (UNION {Vectors(n, 2) : n \in 2..MaxLen})
                \X Halves(2) \X {0, MaxLen} \X {0, MaxLen}}

(***************************************************************************)
(* Construction: the member initializer list copies the arguments.         *)
(***************************************************************************)
InterpolableLUT(a) ==
    /\ args = a
    /\ table = a.table
    /\ x_ref = a.x_ref
    /\ y_ref = a.y_ref
    /\ x_len = a.x_len
    /\ y_len = a.y_len

NoObject ==
    /\ args = None
    /\ table = <<>>
    /\ x_ref = <<>>
    /\ y_ref = <<>>
    /\ x_len = 0
    /\ y_len = 0

NoLocals ==
    /\ x_input = None /\ y_input = None
    /\ x_lower_idx = 0 /\ x_upper_idx = 0
    /\ y_lower_idx = 0 /\ y_upper_idx = 0
    /\ result = None
    /\ interpolated_y_values_at_x = <<>>
    /\ interpolations = <<>>
    /\ row = None
    /\ retval = None

Constructed ==
    /\ pc = "idle"
    /\ searches = <<>>
    /\ NoLocals

\* an object over an unconstrained table
Init == Constructed /\ \E a \in GeneralArgs : InterpolableLUT(a)

\* an object over a monotonic table
InitMonotonic == Constructed /\ \E a \in MonotonicArgs : InterpolableLUT(a)

\* no object: find_nearest_indexes is about to be called on its own
InitSearch ==
    /\ NoObject
    /\ pc = "search_call"
    /\ \E f \in SearchArgs : searches = <<f>>
    /\ NoLocals

(***************************************************************************)
(* find(x_input, y_input)                                                  *)
(***************************************************************************)
\* the row of the table at y, between rows lo and hi: the loop's calls of
\* linear_interpolate, one per column
RowCalls(lo, hi, y) ==
    [i \in 1..x_len |->
        Interpolation(y_ref[lo + 1], table[lo + 1][i],
                      y_ref[hi + 1], table[hi + 1][i], y)]

\* a variant of the final call with the two x-reference values exchanged
FinalCall_swapped(rw, lo, hi, x) ==
    Interpolation(rw[lo + 1], x_ref[hi + 1], rw[hi + 1], x_ref[lo + 1], x)

\* the final call of linear_interpolate, between columns lo and hi of rw
FinalCall(rw, lo, hi, x) ==
    Interpolation(rw[lo + 1], x_ref[lo + 1], rw[hi + 1], x_ref[hi + 1], x)

\* a variant of the declaration: double result = 0;
InitialResult_zero(x) == Rat(0)

\* double result = (double)x_input;
InitialResult(x) == x

\* the x-indexes as declared, when the second search is not reached
NoSearch == [list_len |-> 0, lower_result |-> 0, upper_result |-> 0]

\* the locals of find at its return statement, and the calls it has made
AtReturn(res, ys, xs, rw, calls) ==
    [result |-> res,
     y_lower_idx |-> ys.lower_result, y_upper_idx |-> ys.upper_result,
     x_lower_idx |-> xs.lower_result, x_upper_idx |-> xs.upper_result,
     interpolated_y_values_at_x |-> rw,
     searches |-> IF xs.list_len = 0 THEN <<ys>> ELSE <<ys, xs>>,
     interpolations |-> calls]

\* a variant of find from the second search on that, out of the row's
\* range, returns the nearest end of the x-reference list
FindInRow_clamped(x, ys, rc) ==
    The({The({IF ~xs.ret
              THEN AtReturn(IF RLt(x, rw[1]) THEN x_ref[1] ELSE x_ref[x_len],
                            ys, xs, rw, rc)
              ELSE The({AtReturn(fc.value, ys, xs, rw, Append(rc, fc)) :
                        fc \in {FinalCall(rw, xs.lower_result,
                                          xs.upper_result, x)}}) :
              xs \in {Frame(rw, x_len, x, 0, 0)}}) :
         rw \in {[i \in 1..x_len |-> rc[i].value]}})

\* find from the second search on: rc are the calls that filled the row
FindInRow(x, ys, rc) ==
    The({The({IF ~xs.ret
              THEN AtReturn(InitialResult(x), ys, xs, rw, rc)
              ELSE The({AtReturn(fc.value, ys, xs, rw, Append(rc, fc)) :
                        fc \in {FinalCall(rw, xs.lower_result,
                                          xs.upper_result, x)}}) :
              xs \in {Frame(rw, x_len, x, 0, 0)}}) :
         rw \in {[i \in 1..x_len |-> rc[i].value]}})

\* the body of find: result is x_input unless both searches succeed
FindBody(x, y) ==
    The({IF ~ys.ret
         THEN AtReturn(InitialResult(x), ys, NoSearch, <<>>, <<>>)
         ELSE The({FindInRow(x, ys, rc) :
                   rc \in {RowCalls(ys.lower_result, ys.upper_result, y)}}) :
         ys \in {Frame(y_ref, y_len, y, 0, 0)}})

\* the value find returns
find(x, y) == FindBody(x, y).result

\* a variant of find that fills the lower table row in place of a local
\* vector
Find_in_place(x, y) ==
    /\ pc = "idle"
    /\ pc' = "find_ret"
    /\ x_input' = x
    /\ y_input' = y
    /\ \E b \in {FindBody(x, y)} :
           /\ result' = b.result
           /\ y_lower_idx' = b.y_lower_idx
           /\ y_upper_idx' = b.y_upper_idx
           /\ x_lower_idx' = b.x_lower_idx
           /\ x_upper_idx' = b.x_upper_idx
           /\ interpolated_y_values_at_x' = b.interpolated_y_values_at_x
           /\ searches' = b.searches
           /\ interpolations' = b.interpolations
           /\ table' = IF b.searches[1].ret
                       THEN [table EXCEPT ![b.y_lower_idx + 1] =
                                b.interpolated_y_values_at_x]
                       ELSE table
    /\ UNCHANGED <<args, x_ref, y_ref, x_len, y_len, row, retval>>

\* a call of find, up to its return statement
Find(x, y) ==
    /\ pc = "idle"
    /\ pc' = "find_ret"
    /\ x_input' = x
    /\ y_input' = y
    /\ \E b \in {FindBody(x, y)} :
           /\ result' = b.result
           /\ y_lower_idx' = b.y_lower_idx
           /\ y_upper_idx' = b.y_upper_idx
           /\ x_lower_idx' = b.x_lower_idx
           /\ x_upper_idx' = b.x_upper_idx
           /\ interpolated_y_values_at_x' = b.interpolated_y_values_at_x
           /\ searches' = b.searches
           /\ interpolations' = b.interpolations
    /\ UNCHANGED <<object, row, retval>>

\* back in the caller: the locals and the returned temporaries are gone
Return ==
    /\ pc \in {"find_ret", "yref_ret", "row_ret", "row_throw"}
    /\ pc' = "idle"
    /\ x_input' = None /\ y_input' = None
    /\ x_lower_idx' = 0 /\ x_upper_idx' = 0
    /\ y_lower_idx' = 0 /\ y_upper_idx' = 0
    /\ result' = None
    /\ interpolated_y_values_at_x' = <<>>
    /\ searches' = <<>>
    /\ interpolations' = <<>>
    /\ row' = None
    /\ retval' = None
    /\ UNCHANGED object

(***************************************************************************)
(* The read accessors.                                                     *)
(***************************************************************************)
\* getYRef() returns a copy of y_ref
getYRef ==
    /\ pc = "idle"
    /\ retval' = y_ref
    /\ pc' = "yref_ret"
    /\ UNCHANGED <<object, locals, searches, interpolations, row>>

\* a variant of operator[] that throws when row > y_len
RowAccess_off_by_one(r) ==
    /\ pc = "idle"
    /\ row' = r
    /\ IF r > y_len
       THEN pc' = "row_throw" /\ retval' = None
       ELSE pc' = "row_ret"
            /\ retval' = IF r < y_len THEN table[r + 1] ELSE <<>>
    /\ UNCHANGED <<object, locals, searches, interpolations>>

\* operator[](row): throws std::out_of_range when row >= y_len
RowAccess(r) ==
    /\ pc = "idle"
    /\ row' = r
    /\ IF r >= y_len
       THEN pc' = "row_throw" /\ retval' = None
       ELSE pc' = "row_ret" /\ retval' = table[r + 1]
    /\ UNCHANGED <<object, locals, searches, interpolations>>

\* the row indexes a caller passes: every valid one and two invalid ones
RowIndexes == 0..(y_len + 1)

(***************************************************************************)
(* find_nearest_indexes called on its own.                                 *)
(***************************************************************************)
SearchApply ==
    /\ pc = "search_call"
    /\ LET f == searches[1]
       IN  searches' = <<Frame(f.list, f.list_len, f.search_val,
                               f.lower_in, f.upper_in)>>
    /\ pc' = "search_ret"
    /\ UNCHANGED <<object, locals, interpolations, row, retval>>

\* the search has returned to its caller
SearchReturn ==
    /\ pc = "search_ret"
    /\ pc' = "search_done"
    /\ UNCHANGED <<object, locals, searches, interpolations, row, retval>>

Next ==
    \/ pc = "idle" /\ \E x \in XInputs, y \in YInputs : Find(x, y)
    \/ getYRef
    \/ \E r \in RowIndexes : RowAccess(r)
    \/ Return

NextSearch == SearchApply \/ SearchReturn

\* the public operations on an object over an unconstrained table
Spec == Init /\ [][Next]_vars

\* the public operations on an object over a monotonic table
SpecMonotonic == InitMonotonic /\ [][Next]_vars

\* find_nearest_indexes on lists in any order
SpecSearch == InitSearch /\ [][NextSearch]_vars

(***************************************************************************)
(* The properties.                                                         *)
(***************************************************************************)
\* find has run to its return statement
Returning == pc = "find_ret"

\* the first search of find, over y_ref, found a bracket
YBracketed == Returning /\ searches[1].ret

\* y lies below the first or not below the last element of y_ref
YOutOfRange(y) == RLt(y, y_ref[1]) \/ RLe(y_ref[y_len], y)

\* x lies in [rw[first], rw[last])
InRowRange(rw, x) == RLe(rw[1], x) /\ RLt(x, rw[Len(rw)])

\* C1: with an ascending y_ref, find returns x_input unchanged whenever
\* y_input is below y_ref[0] or is y_ref[y_len-1] or more
C1_YFallback ==
    (Returning /\ Ascending(y_ref) /\ YOutOfRange(y_input))
        => result = x_input

\* C1 witness: y_input is exactly the last, and not the first, y_ref value
C1_Witness ==
    /\ Returning
    /\ Ascending(y_ref)
    /\ y_input = y_ref[y_len]
    /\ y_input # y_ref[1]
    /\ result = x_input
    /\ Len(searches) = 1

\* C3: when the y-bracket is found and x_input is below every value of the
\* synthetic row, or below none of them, find returns x_input unchanged
C3_XFallback ==
    (/\ YBracketed
     /\ \/ \A i \in 1..x_len : RLt(x_input, interpolated_y_values_at_x[i])
        \/ \A i \in 1..x_len : ~RLt(x_input, interpolated_y_values_at_x[i]))
        => result = x_input

\* C3 witness: the y-bracket is found, x_input is the largest value of a
\* row that is not constant, and find has searched the row
C3_Witness ==
    /\ YBracketed
    /\ \A i \in 1..x_len : ~RLt(x_input, interpolated_y_values_at_x[i])
    /\ \E i \in 1..x_len : x_input = interpolated_y_values_at_x[i]
    /\ \E i \in 1..x_len : x_input # interpolated_y_values_at_x[i]
    /\ Len(searches) = 2
    /\ result = x_input

\* C6: operator[] throws and returns nothing when row >= y_len, and returns
\* the stored row when row is in 0..y_len-1
C6_RowAccess ==
    pc \in {"row_ret", "row_throw"}
        => IF row >= y_len
           THEN pc = "row_throw" /\ retval = None
           ELSE pc = "row_ret" /\ row \in 0..(y_len - 1)
                /\ retval = args.table[row + 1]

\* C6 witness: the first index that is out of range has been passed
C6_Witness == pc = "row_throw" /\ row = y_len

\* C7: whatever has been called, the members are the constructor's arguments
C7_Immutable ==
    /\ table = args.table
    /\ x_ref = args.x_ref
    /\ y_ref = args.y_ref
    /\ x_len = args.x_len
    /\ y_len = args.y_len

\* C7 witness: find has interpolated a row and then fallen back
C7_Witness ==
    /\ YBracketed
    /\ ~searches[2].ret
    /\ interpolated_y_values_at_x # table[y_lower_idx + 1]

\* list[i] <= v < list[i+1], i counted from 0
Brackets(f, i) ==
    RLe(f.list[i + 1], f.search_val) /\ RLt(f.search_val, f.list[i + 2])

\* the indexes from 0 that bracket the search value of a call
BracketsOf(f) == {i \in 0..(f.list_len - 2) : Brackets(f, i)}

\* C8: a successful search returns the smallest bracketing index and its
\* successor; a search fails exactly when no index brackets the value, and
\* then leaves both outputs as they were
C8_SearchResult ==
    pc \in {"search_ret", "search_done"}
        => \A k \in 1..Len(searches) :
              IF BracketsOf(searches[k]) # {}
              THEN /\ searches[k].ret
                   /\ searches[k].lower_result \in BracketsOf(searches[k])
                   /\ \A i \in BracketsOf(searches[k]) :
                          searches[k].lower_result <= i
                   /\ searches[k].upper_result = searches[k].lower_result + 1
              ELSE /\ ~searches[k].ret
                   /\ searches[k].lower_result = searches[k].lower_in
                   /\ searches[k].upper_result = searches[k].upper_in

\* C8 witness: two indexes bracket the value and the smaller is returned
C8_Witness ==
    /\ pc = "search_ret"
    /\ Cardinality(BracketsOf(searches[1])) = 2
    /\ searches[1].ret
    /\ searches[1].lower_result = 0
    /\ searches[1].lower_in # 0

\* C9: a search over a list of any order succeeds when the value lies in
\* [list[0], list[len-1]); so find does not fall back when y_input lies in
\* [y_ref[0], y_ref[y_len-1]) and x_input in [row[0], row[x_len-1])
C9_SearchComplete ==
    Returning =>
        /\ \A k \in 1..Len(searches) :
              InRowRange(searches[k].list, searches[k].search_val)
                  => searches[k].ret
        /\ InRowRange(y_ref, y_input)
              => /\ Len(searches) = 2
                 /\ InRowRange(interpolated_y_values_at_x, x_input)
                       => /\ Len(interpolations) = x_len + 1
                          /\ result = interpolations[x_len + 1].value

\* C9 witness: find has interpolated in a row that is not ascending
C9_Witness ==
    /\ Returning
    /\ InRowRange(y_ref, y_input)
    /\ InRowRange(interpolated_y_values_at_x, x_input)
    /\ ~Ascending(interpolated_y_values_at_x)
    /\ Len(interpolations) = x_len + 1
    /\ result # x_input

\* C10: every call of linear_interpolate that find makes has x0 < x1
C10_NoZeroWidth ==
    \A k \in 1..Len(interpolations) :
        RLt(interpolations[k].x0, interpolations[k].x1)

\* C10 witness: find has made both passes over a table with a constant
\* y_ref pair and a constant pair in the row it searched
C10_Witness ==
    /\ Returning
    /\ Len(interpolations) = x_len + 1
    /\ \E i \in 1..(y_len - 1) : y_ref[i] = y_ref[i + 1]
    /\ \E i \in 1..(x_len - 1) :
           interpolated_y_values_at_x[i] = interpolated_y_values_at_x[i + 1]

\* y_ref, x_ref and every row of the table are strictly increasing
MonotonicData ==
    /\ Increasing(y_ref)
    /\ Increasing(x_ref)
    /\ \A k \in 1..y_len : Increasing(table[k])

\* find was called with the table's value in row k, column j (from 0) and
\* with the y-reference value of row k
AtGridPoint(k, j) ==
    /\ Returning
    /\ y_input = y_ref[k + 1]
    /\ x_input = table[k + 1][j + 1]

\* C2 as stated: for every row k but the last and every column j,
\* find(Grid[k][j], Y-ref[k]) returns X-ref[j]
C2_Original ==
    \A k \in 0..(y_len - 2), j \in 0..(x_len - 1) :
        (AtGridPoint(k, j) /\ MonotonicData) => result = x_ref[j + 1]

\* C2 amended: on monotonic data, for every row k but the last and every
\* column j but the last, find(Grid[k][j], Y-ref[k]) returns X-ref[j]; for
\* the last column it returns Grid[k][j] unchanged
C2_RoundTrip ==
    \A k \in 0..(y_len - 2), j \in 0..(x_len - 1) :
        (AtGridPoint(k, j) /\ MonotonicData)
            => result = IF j <= x_len - 2 THEN x_ref[j + 1] ELSE x_input

\* C2 witness: a grid point of the second row, off the last column, whose
\* value differs from its x-reference value
C2_Witness ==
    /\ MonotonicData
    /\ y_len = 3
    /\ AtGridPoint(1, 0)
    /\ table[2][1] # x_ref[1]
    /\ result = x_ref[1]

\* what find(x2, y_input) returns: the first search and the loop read
\* y_input only, so the call goes on from the same bracket and row calls
Other(x2) ==
    FindInRow(x2, searches[1], SubSeq(interpolations, 1, x_len)).result

\* C4 as stated: on monotonic data and for y_input in
\* [y_ref[0], y_ref[y_len-1]), x1 <= x2 implies find(x1, y) <= find(x2, y)
C4_Original ==
    (Returning /\ InRowRange(y_ref, y_input) /\ MonotonicData)
        => \A x2 \in XInputs :
              RLe(x_input, x2) => RLe(result, Other(x2))

\* C4 amended: on monotonic data and for y_input in
\* [y_ref[0], y_ref[y_len-1]), x1 <= x2 implies find(x1, y) <= find(x2, y)
\* when x1 and x2 are both inside the synthetic row's range
\* [row[0], row[x_len-1]) or both outside it
C4_Monotonic ==
    (Returning /\ InRowRange(y_ref, y_input) /\ MonotonicData)
        => \A x2 \in XInputs :
              (/\ RLe(x_input, x2)
               /\ InRowRange(interpolated_y_values_at_x, x_input)
                    <=> InRowRange(interpolated_y_values_at_x, x2))
                  => RLe(result, Other(x2))

\* C4 witness: find has interpolated x_input, and a larger query inside the
\* row's range gets a larger value that is not the query itself
C4_Witness ==
    /\ Returning
    /\ MonotonicData
    /\ InRowRange(y_ref, y_input)
    /\ InRowRange(interpolated_y_values_at_x, x_input)
    /\ result # x_input
    /\ \E x2 \in XInputs :
           /\ RLt(x_input, x2)
           /\ InRowRange(interpolated_y_values_at_x, x2)
           /\ RLt(result, find(x2, y_input))
           /\ find(x2, y_input) # x2

\* the two ways of writing find(x2, y_input) agree
OtherIsFind ==
    (Returning /\ searches[1].ret)
        => \A x2 \in XInputs : Other(x2) = find(x2, y_input)

\* the position of y_input between the y-reference values that bracket it
Fraction ==
    RDiv(RSub(y_input, y_ref[y_lower_idx + 1]),
         RSub(y_ref[y_upper_idx + 1], y_ref[y_lower_idx + 1]))

\* (1 - t) * a + t * b
Mix(t, a, b) == RAdd(RMul(RSub(Rat(1), t), a), RMul(t, b))

\* v lies between a and b, whichever is the larger
Between(v, a, b) ==
    \/ RLe(a, v) /\ RLe(v, b)
    \/ RLe(b, v) /\ RLe(v, a)

\* y_input lies strictly between the consecutive y-reference values lo, lo+1
StrictlyInside(lo) ==
    /\ RLt(y_ref[lo + 1], y_input)
    /\ RLt(y_input, y_ref[lo + 2])

\* C5: for y_input strictly between y_ref[lo] and y_ref[lo+1], find takes
\* the rows lo and lo+1 and every row[i] is (1-t)*Grid[lo][i] + t*Grid[lo+1][i]
\* with 0 < t < 1, and so lies between Grid[lo][i] and Grid[lo+1][i]
C5_ConvexRow ==
    \A lo \in 0..(y_len - 2) :
        (Returning /\ StrictlyInside(lo) /\ MonotonicData)
            => /\ searches[1].ret
               /\ y_lower_idx = lo
               /\ y_upper_idx = lo + 1
               /\ RLt(Rat(0), Fraction)
               /\ RLt(Fraction, Rat(1))
               /\ Len(interpolated_y_values_at_x) = x_len
               /\ \A i \in 1..x_len :
                      /\ interpolated_y_values_at_x[i]
                             = Mix(Fraction, table[lo + 1][i], table[lo + 2][i])
                      /\ Between(interpolated_y_values_at_x[i],
                                 table[lo + 1][i], table[lo + 2][i])

\* C5 witness: y_input is a quarter of the way between two y-reference
\* values and the row differs from both table rows
C5_Witness ==
    /\ Returning
    /\ MonotonicData
    /\ StrictlyInside(y_lower_idx)
    /\ Fraction = Norm(1, 4)
    /\ \E i \in 1..x_len :
           /\ interpolated_y_values_at_x[i] # table[y_lower_idx + 1][i]
           /\ interpolated_y_values_at_x[i] # table[y_upper_idx + 1][i]

=============================================================================
